---- MODULE Spec2Model ----
(***************************************************************************)
(* Model of get_npv (src/NPV.py): the NPV of a drug launch, computed as a  *)
(* straight-line pipeline of numpy array operations.                       *)
(*                                                                         *)
(* Numbers.  The code computes in IEEE doubles.  The model computes in     *)
(* exact arithmetic on the ring Z[1/30] of numbers m * 2^e2 * 3^e3 * 5^e5  *)
(* (every decimal literal is in it), with one extra value, NonFinite, for  *)
(* the inf/nan a division by zero yields under numpy.  Rounding, overflow  *)
(* and underflow of doubles are not modelled.  A number is a record        *)
(*   [s |-> sign, m |-> magnitude, e2, e3, e5 |-> exponents]               *)
(* in canonical form: m is an arbitrary-precision natural coprime to 30,   *)
(* kept as a little-endian sequence of limbs in 0..999, so two numbers are *)
(* equal exactly when their records are.                                   *)
(***************************************************************************)
EXTENDS Integers, Sequences, FiniteSets, TLC

----------------------------------------------------------------------------
(* Evaluation.  An operator below that uses an argument more than once     *)
(* first binds its value (Let1, Let2), and a sequence built as a function  *)
(* is turned into a tuple (Seq0), so that no value is computed twice.      *)

Let1(v, F(_)) == CHOOSE r \in {F(x) : x \in {v}} : TRUE
Let2(v, w, F(_, _)) == CHOOSE r \in {F(x, y) : x \in {v}, y \in {w}} : TRUE
Seq0(f) == f \o <<>>

Max2(x, y) == IF x >= y THEN x ELSE y
Min2(x, y) == IF x <= y THEN x ELSE y

\* the largest element of a non-empty finite set of integers
MaxOf(S) == CHOOSE i \in S : \A j \in S : j <= i

----------------------------------------------------------------------------
(* Arbitrary-precision naturals: little-endian limbs base 1000, no leading *)
(* zero limb; <<>> is zero.                                                *)

Limb == 10 * 10 * 10

NatTrim(a) ==
    Let1(a, LAMBDA x :
        Let1({i \in 1..Len(x) : x[i] # 0}, LAMBDA nz :
            IF nz = {} THEN <<>> ELSE SubSeq(x, 1, MaxOf(nz))))

NatDigit(a, i) == IF i >= 1 /\ i <= Len(a) THEN a[i] ELSE 0

NatFromInt(k) ==
    NatTrim(<<k % Limb, (k \div Limb) % Limb, (k \div (Limb * Limb)) % Limb,
              k \div (Limb * Limb * Limb)>>)

\* the limbs raw[i] in 0 .. 2 * Limb - 2 brought below Limb: the carry into
\* limb i is decided by the limbs below it
NatCarry(raw) ==
    LET carry(i) == IF \E j \in 1..(i - 1) :
                           /\ raw[j] >= Limb
                           /\ \A k \in (j + 1)..(i - 1) : raw[k] = Limb - 1
                    THEN 1 ELSE 0
    IN  NatTrim([i \in 1..Len(raw) |-> (raw[i] + carry(i)) % Limb])

NatAdd(a, b) ==
    Let2(a, b, LAMBDA x, y :
        Let1(Seq0([i \in 1..(Max2(Len(x), Len(y)) + 1) |->
                      NatDigit(x, i) + NatDigit(y, i)]), NatCarry))

\* the limbs raw[i] in 1 - Limb .. Limb - 1 brought to 0 .. Limb - 1
NatBorrow(raw) ==
    LET borrow(i) == IF \E j \in 1..(i - 1) :
                            /\ raw[j] < 0
                            /\ \A k \in (j + 1)..(i - 1) : raw[k] = 0
                     THEN 1 ELSE 0
    IN  NatTrim([i \in 1..Len(raw) |-> (raw[i] - borrow(i)) % Limb])

\* a - b for a >= b
NatSub(a, b) ==
    Let2(a, b, LAMBDA x, y :
        Let1(Seq0([i \in 1..Len(x) |-> x[i] - NatDigit(y, i)]), NatBorrow))

\* -1, 0, 1 as a < b, a = b, a > b
NatCmp(a, b) ==
    Let2(a, b, LAMBDA x, y :
        IF Len(x) < Len(y) THEN -1
        ELSE IF Len(x) > Len(y) THEN 1
        ELSE Let1({i \in 1..Len(x) : x[i] # y[i]}, LAMBDA diff :
                 IF diff = {} THEN 0
                 ELSE Let1(MaxOf(diff), LAMBDA top :
                          IF x[top] < y[top] THEN -1 ELSE 1)))

\* the natural whose limb i is cols[i], for cols[i] < Limb^3
NatFromColumns(cols) ==
    Let1(cols, LAMBDA c :
        NatAdd(NatAdd(NatTrim([i \in 1..Len(c) |-> c[i] % Limb]),
                      NatTrim([i \in 1..(Len(c) + 1) |->
                                  IF i = 1 THEN 0 ELSE (c[i - 1] \div Limb) % Limb])),
               NatTrim([i \in 1..(Len(c) + 2) |->
                           IF i <= 2 THEN 0 ELSE c[i - 2] \div (Limb * Limb)])))

\* a * k for a small natural k (k * Limb stays below 2^31)
NatMulSmall(a, k) ==
    Let2(a, k, LAMBDA x, y : NatFromColumns(Seq0([i \in 1..Len(x) |-> x[i] * y])))

\* the sum of a[i] * b[k + 1 - i] for i in lo..hi, by halving
RECURSIVE ColumnSum(_, _, _, _, _)
ColumnSum(a, b, k, lo, hi) ==
    IF lo > hi THEN 0
    ELSE IF lo = hi THEN a[lo] * b[k + 1 - lo]
    ELSE ColumnSum(a, b, k, lo, (lo + hi) \div 2)
         + ColumnSum(a, b, k, (lo + hi) \div 2 + 1, hi)

NatMul(a, b) ==
    Let2(a, b, LAMBDA x, y :
        IF x = <<>> \/ y = <<>> THEN <<>>
        ELSE IF y = <<1>> THEN x
        ELSE IF x = <<1>> THEN y
        ELSE NatFromColumns(Seq0([k \in 1..(Len(x) + Len(y) - 1) |->
                 ColumnSum(x, y, k, Max2(1, k + 1 - Len(y)), Min2(Len(x), k))])))

\* rems[i] is the number of the limbs i.. of a, modulo a small k; built from
\* the top limb down (a and k evaluated)
RECURSIVE NatRems(_, _, _, _)
NatRems(a, k, i, acc) ==
    IF i = 0 THEN acc
    ELSE NatRems(a, k, i - 1,
                 <<((IF acc = <<>> THEN 0 ELSE acc[1]) * Limb + a[i]) % k>> \o acc)

\* <<a \div k, a % k>> for a small k
NatDivMod(a, k) ==
    Let2(a, k, LAMBDA x, y :
        IF x = <<>> THEN <<(<<>>), 0>>
        ELSE Let1(NatRems(x, y, Len(x), <<>>), LAMBDA rems :
                 <<NatTrim([i \in 1..Len(x) |->
                      ((IF i = Len(x) THEN 0 ELSE rems[i + 1]) * Limb + x[i]) \div y]),
                   rems[1]>>))

NatDivSmall(a, k) == NatDivMod(a, k)[1]
NatModSmall(a, k) == NatDivMod(a, k)[2]

\* p^n as an integer, for small results
RECURSIVE SmallPow(_, _)
SmallPow(p, n) == IF n = 0 THEN 1 ELSE p * SmallPow(p, n - 1)

\* the largest exponent taken in one step: p^ChunkExp(p) * Limb stays below 2^31
ChunkExp(p) == IF p = 2 THEN 19 ELSE IF p = 3 THEN 12 ELSE 8

\* a * p^n
RECURSIVE NatMulPow(_, _, _)
NatMulPow(a, p, n) ==
    IF n <= 0 THEN a
    ELSE Let1(NatMulSmall(a, SmallPow(p, Min2(n, ChunkExp(p)))), LAMBDA next :
             NatMulPow(next, p, n - Min2(n, ChunkExp(p))))

\* <<a / q^v, v>> for the largest v with q^v dividing a (a # 0)
RECURSIVE NatStripBy(_, _)
NatStripBy(a, q) ==
    Let1(NatDivMod(a, q), LAMBDA dm :
        IF dm[2] # 0 THEN <<a, 0>>
        ELSE Let1(NatStripBy(dm[1], q), LAMBDA r : <<r[1], r[2] + 1>>))

\* <<a / p^v, v>> for the exponent v of the prime p in a (a # 0)
NatStripPrime(a, p) ==
    Let1(a, LAMBDA x :
        Let1(NatStripBy(x, SmallPow(p, ChunkExp(p))), LAMBDA big :
            Let1(NatStripBy(big[1], p), LAMBDA small :
                <<small[1], ChunkExp(p) * big[2] + small[2]>>)))

RECURSIVE NatPowAcc(_, _, _)
NatPowAcc(a, t, acc) ==
    IF t = 0 THEN acc
    ELSE Let1(NatMul(acc, a), LAMBDA next : NatPowAcc(a, t - 1, next))

NatPow(a, t) == Let1(a, LAMBDA x : NatPowAcc(x, t, <<1>>))

----------------------------------------------------------------------------
(* Numbers of Z[1/30], and NonFinite.                                      *)

Zero      == [s |-> 0, m |-> <<>>, e2 |-> 0, e3 |-> 0, e5 |-> 0]
NonFinite == [s |-> 2, m |-> <<>>, e2 |-> 0, e3 |-> 0, e5 |-> 0]

IsFinite(x) == x.s # 2

\* sign s, magnitude m * 2^e2 * 3^e3 * 5^e5 with m any natural: canonical form
Canon(s, m, e2, e3, e5) ==
    Let1(m, LAMBDA m0 :
        IF s = 0 \/ m0 = <<>> THEN Zero
        ELSE Let1(NatStripPrime(m0, 2), LAMBDA r2 :
             Let1(NatStripPrime(r2[1], 3), LAMBDA r3 :
             Let1(NatStripPrime(r3[1], 5), LAMBDA r5 :
                 [s |-> s, m |-> r5[1],
                  e2 |-> e2 + r2[2], e3 |-> e3 + r3[2], e5 |-> e5 + r5[2]]))))

Abs(k) == IF k < 0 THEN -k ELSE k
Sgn(k) == IF k < 0 THEN -1 ELSE IF k = 0 THEN 0 ELSE 1

\* the exponent of the prime p in the integer k > 0
RECURSIVE IntValuation(_, _)
IntValuation(k, p) == IF k % p # 0 THEN 0 ELSE 1 + IntValuation(k \div p, p)

\* the decimal literal k / 10^d, as 335.5 is Dec(3355, 1)
Dec(k, d) ==
    IF k = 0 THEN Zero
    ELSE [s  |-> Sgn(k),
          m  |-> NatFromInt(Abs(k) \div (SmallPow(2, IntValuation(Abs(k), 2))
                                         * SmallPow(3, IntValuation(Abs(k), 3))
                                         * SmallPow(5, IntValuation(Abs(k), 5)))),
          e2 |-> IntValuation(Abs(k), 2) - d,
          e3 |-> IntValuation(Abs(k), 3),
          e5 |-> IntValuation(Abs(k), 5) - d]

\* the integer k
Int2Num(k) == Dec(k, 0)

One == [s |-> 1, m |-> <<1>>, e2 |-> 0, e3 |-> 0, e5 |-> 0]

Neg(x) == Let1(x, LAMBDA v : IF v.s = 2 THEN v ELSE [v EXCEPT !.s = -v.s])

Mul(x, y) ==
    Let2(x, y, LAMBDA v, w :
        IF v.s = 2 \/ w.s = 2 THEN NonFinite
        ELSE IF v.s = 0 \/ w.s = 0 THEN Zero
        ELSE [s  |-> v.s * w.s, m |-> NatMul(v.m, w.m),
              e2 |-> v.e2 + w.e2, e3 |-> v.e3 + w.e3, e5 |-> v.e5 + w.e5])

\* the magnitude of x scaled to the exponents (e2, e3, e5), each at most x's
Scaled(x, e2, e3, e5) ==
    NatMulPow(NatMulPow(NatMulPow(x.m, 2, x.e2 - e2), 3, x.e3 - e3), 5, x.e5 - e5)

\* v + w for finite non-zero v and w (evaluated)
AddFinite(v, w) ==
    Let2(Scaled(v, Min2(v.e2, w.e2), Min2(v.e3, w.e3), Min2(v.e5, w.e5)),
         Scaled(w, Min2(v.e2, w.e2), Min2(v.e3, w.e3), Min2(v.e5, w.e5)),
         LAMBDA a, b :
            IF v.s = w.s
            THEN Canon(v.s, NatAdd(a, b),
                       Min2(v.e2, w.e2), Min2(v.e3, w.e3), Min2(v.e5, w.e5))
            ELSE Let1(NatCmp(a, b), LAMBDA c :
                     IF c = 0 THEN Zero
                     ELSE Canon(IF c > 0 THEN v.s ELSE w.s,
                                IF c > 0 THEN NatSub(a, b) ELSE NatSub(b, a),
                                Min2(v.e2, w.e2), Min2(v.e3, w.e3), Min2(v.e5, w.e5))))

Add(x, y) ==
    Let2(x, y, LAMBDA v, w :
        IF v.s = 2 \/ w.s = 2 THEN NonFinite
        ELSE IF v.s = 0 THEN w
        ELSE IF w.s = 0 THEN v
        ELSE AddFinite(v, w))

Sub(x, y) == Add(x, Neg(y))

\* The quotient x / y is in the ring when y is a unit of it (m = 1).
IsUnit(y) == y.s \in {-1, 1} /\ y.m = <<1>>

\* x / y under numpy: a zero divisor gives inf or nan (a warning, no error)
Div(x, y) ==
    Let2(x, y, LAMBDA v, w :
        IF v.s = 2 \/ w.s = 2 \/ w.s = 0 THEN NonFinite
        ELSE IF v.s = 0 THEN Zero
        ELSE [s  |-> v.s * w.s, m |-> v.m,
              e2 |-> v.e2 - w.e2, e3 |-> v.e3 - w.e3, e5 |-> v.e5 - w.e5])

\* x ** t for an integer t >= 0 (0 ** 0 = 1, as in Python and numpy)
Pow(x, t) ==
    Let1(x, LAMBDA v :
        IF v.s = 2 THEN NonFinite
        ELSE IF t = 0 THEN One
        ELSE IF v.s = 0 THEN Zero
        ELSE [s  |-> IF v.s = -1 /\ t % 2 = 1 THEN -1 ELSE 1, m |-> NatPow(v.m, t),
              e2 |-> v.e2 * t, e3 |-> v.e3 * t, e5 |-> v.e5 * t])

Less(x, y)   == Let1(Sub(x, y), LAMBDA d : d.s = -1)
LessEq(x, y) == Let1(Sub(x, y), LAMBDA d : d.s \in {-1, 0})
IsInteger(x) == Let1(x, LAMBDA v : v.s # 2 /\ v.e2 >= 0 /\ v.e3 >= 0 /\ v.e5 >= 0)

\* the value of an integer-valued number below Limb^2 in magnitude
ToInt(x) ==
    Let1(x, LAMBDA v :
        IF v.s = 0 THEN 0
        ELSE Let1(Scaled(v, 0, 0, 0), LAMBDA n :
                 v.s * (NatDigit(n, 1) + Limb * NatDigit(n, 2))))

----------------------------------------------------------------------------
(* numpy arrays: one-dimensional, as sequences of numbers.                 *)

\* a variant without broadcasting: shapes combine only when equal
Broadcastable_Strict(a, b) == Len(a) = Len(b)

\* two shapes (n,) and (m,) broadcast together when equal or when one is 1
Broadcastable(a, b) == Len(a) = Len(b) \/ Len(a) = 1 \/ Len(b) = 1

BroadcastLen(a, b) == IF Len(a) = 1 THEN Len(b) ELSE Len(a)

Item(a, i) == IF Len(a) = 1 THEN a[1] ELSE a[i]

ArrayMul(a, b) ==
    Let2(a, b, LAMBDA x, y :
        Seq0([i \in 1..BroadcastLen(x, y) |-> Mul(Item(x, i), Item(y, i))]))
ArrayAdd(a, b) ==
    Let2(a, b, LAMBDA x, y :
        Seq0([i \in 1..BroadcastLen(x, y) |-> Add(Item(x, i), Item(y, i))]))
ArraySub(a, b) ==
    Let2(a, b, LAMBDA x, y :
        Seq0([i \in 1..BroadcastLen(x, y) |-> Sub(Item(x, i), Item(y, i))]))

\* scalar * array, scalar + array
ScalarMul(c, a) == Let2(c, a, LAMBDA v, x : Seq0([i \in 1..Len(x) |-> Mul(v, x[i])]))
ScalarAdd(c, a) == Let2(c, a, LAMBDA v, x : Seq0([i \in 1..Len(x) |-> Add(v, x[i])]))

Zeros(n) == Seq0([i \in 1..n |-> Zero])
Ones(n)  == Seq0([i \in 1..n |-> One])

\* np.arange(0, n) has max(n, 0) elements, 0 .. n-1
ArangeLen(n) == Max2(n, 0)

\* ndarray.sum(): the elements added up; 0.0 for an empty array
RECURSIVE SumRange(_, _, _)
SumRange(a, lo, hi) ==
    IF lo > hi THEN Zero
    ELSE IF lo = hi THEN a[lo]
    ELSE Add(SumRange(a, lo, (lo + hi) \div 2), SumRange(a, (lo + hi) \div 2 + 1, hi))

ArraySum(a) == Let1(a, LAMBDA x : SumRange(x, 1, Len(x)))

\* np.exp at the integers -2 .. 2, each value rounded (by under 7 percent)
\* to a number e with 1 + e a unit of the ring, so that the logistic
\* quotient of line 52 is exact:
\*   exp(-2) = 0.135.. as 1/8,  exp(-1) = 0.367.. as 7/20,  exp(0) = 1,
\*   exp(1) = 2.718.. as 11/4,  exp(2) = 7.389.. as 7
ExpArgs == -2..2

Exp(x) ==
    Let1(ToInt(x), LAMBDA k :
        IF k = -2 THEN Dec(125, 3)
        ELSE IF k = -1 THEN Dec(35, 2)
        ELSE IF k = 0 THEN One
        ELSE IF k = 1 THEN Dec(275, 2)
        ELSE Int2Num(7))

----------------------------------------------------------------------------
(* get_npv.  args is the record of the 15 keyword parameters; the three    *)
(* counts (n_years, patent_exclusive_years, lead_time_years) are integers, *)
(* the others numbers.                                                     *)

VARIABLES
    args,                \* the parameters of the call in progress
    pc,                  \* the statement the call is at; "returned", "raised"
    bound,               \* the local names assigned so far in this call
    population, n_flu, market_penetration, n_patients_treated, nr_costs,
    revenue, r_costs, costs, net_income, dcfs,   \* the locals of get_npv
    result,              \* the value returned
    prev,                \* the previous call: its args, how it ended, its result
    calls                \* the number of calls made

locals == <<population, n_flu, market_penetration, n_patients_treated, nr_costs,
            revenue, r_costs, costs, net_income, dcfs>>

vars == <<args, pc, bound, locals, result, prev, calls>>

\* the calls one run of the model makes
MaxCalls == 2

PostPatentYears == 5
ZeroPadYears == 24

rd_costs_baseline ==
    <<Dec(3515, 3), Dec(3789, 3), Dec(82, 1), Dec(108, 1), Dec(23796, 3), Dec(22, 1)>>

\* the defaults of the signature, but hill_coefficient (7 by default): the
\* model computes np.exp only on ExpArgs
Defaults ==
    [us_population                |-> Dec(3355, 1),
     us_population_growth_rate    |-> Dec(7, 3),
     n_years                      |-> 30,
     get_flu_rate                 |-> Dec(14, 2),
     max_penetration              |-> Dec(5, 1),
     patent_exclusive_years       |-> 19,
     penetration_upon_patent_loss |-> Dec(5, 2),
     inflection_year              |-> Dec(15, 1),
     hill_coefficient             |-> Zero,
     lead_time_years              |-> 6,
     rd_cost_scaler               |-> One,
     clindev_sga                  |-> Dec(5, 1),
     cost_of_revenue              |-> Dec(49, 2),
     cost_per_unit                |-> Int2Num(45),
     discount_rate                |-> Dec(35, 2)]

ParamNames == DOMAIN Defaults

\* a variant of the exponent that drops the factor -1
ExpArg_Unsigned(a, i) ==
    Mul(a.hill_coefficient, Sub(Int2Num(i), a.inflection_year))

\* line 52: the exponent -1 * hill_coefficient * (i - inflection_year)
ExpArg(a, i) ==
    Mul(Mul(Int2Num(-1), a.hill_coefficient), Sub(Int2Num(i), a.inflection_year))

\* a variant of the curve that saturates at 1 instead of max_penetration
Logistic_Unscaled(a, i) == Div(One, Add(One, Exp(ExpArg(a, i))))

\* line 52: one element of the Fisher-Pry curve
Logistic(a, i) == Div(a.max_penetration, Add(One, Exp(ExpArg(a, i))))

pre_approval(a) == Zeros(a.lead_time_years)

patent_effective(a) ==
    [k \in 1..ArangeLen(a.patent_exclusive_years) |-> Logistic(a, k - 1)]

post_patent(a) == ScalarMul(a.penetration_upon_patent_loss, Ones(PostPatentYears))

rd_costs(a) == ScalarMul(a.rd_cost_scaler, rd_costs_baseline)

\* a variant that scales clindev_sga along with the R&D costs
dev_costs_Scaled(a) ==
    ScalarMul(a.rd_cost_scaler, ScalarAdd(a.clindev_sga, rd_costs_baseline))

dev_costs(a) == ScalarAdd(a.clindev_sga, rd_costs(a))

\* a variant that compounds the cash flows instead of discounting them
DiscountedCashFlows_Compounded(a, income) ==
    [k \in 1..Min2(Len(income), ArangeLen(a.n_years)) |->
        Mul(income[k], Pow(Add(One, a.discount_rate), k - 1))]

\* line 78: zip stops at the shorter of net_income and np.arange(0, n_years)
DiscountedCashFlows(a, income) ==
    [k \in 1..Min2(Len(income), ArangeLen(a.n_years)) |->
        Div(income[k], Pow(Add(One, a.discount_rate), k - 1))]

Raise == pc' = "raised"

\* # Market Addressable (lines 47-48)
MarketAddressable ==
    /\ pc = "line47"
    /\ population' =
           ScalarMul(args.us_population,
                     [k \in 1..ArangeLen(args.n_years) |->
                         Pow(Add(One, args.us_population_growth_rate), k - 1)])
    /\ n_flu' = ScalarMul(args.get_flu_rate, population')
    /\ bound' = bound \cup {"population", "n_flu"}
    /\ pc' = "line51"
    /\ UNCHANGED <<args, market_penetration, n_patients_treated, nr_costs, revenue,
                   r_costs, costs, net_income, dcfs, result, prev, calls>>

\* # Market Penetration Rate (lines 51-54); np.zeros raises ValueError on a
\* negative length
MarketPenetrationRate ==
    /\ pc = "line51"
    /\ IF args.lead_time_years < 0
       THEN /\ Raise
            /\ UNCHANGED <<market_penetration, bound>>
       ELSE /\ market_penetration' =
                   pre_approval(args) \o patent_effective(args) \o post_patent(args)
            /\ bound' = bound \cup {"market_penetration"}
            /\ pc' = "line57"
    /\ UNCHANGED <<args, population, n_flu, n_patients_treated, nr_costs, revenue,
                   r_costs, costs, net_income, dcfs, result, prev, calls>>

\* # Number of Patients per Year (line 57); an operand pair that does not
\* broadcast raises ValueError
PatientsPerYear ==
    /\ pc = "line57"
    /\ IF Broadcastable(market_penetration, n_flu)
       THEN /\ n_patients_treated' = ArrayMul(market_penetration, n_flu)
            /\ bound' = bound \cup {"n_patients_treated"}
            /\ pc' = "line60"
       ELSE /\ Raise
            /\ UNCHANGED <<n_patients_treated, bound>>
    /\ UNCHANGED <<args, population, n_flu, market_penetration, nr_costs, revenue,
                   r_costs, costs, net_income, dcfs, result, prev, calls>>

\* # Non-revenue costs (lines 60-63)
NonRevenueCosts ==
    /\ pc = "line60"
    /\ nr_costs' = dev_costs(args) \o Zeros(ZeroPadYears)
    /\ bound' = bound \cup {"nr_costs"}
    /\ pc' = "line66"
    /\ UNCHANGED <<args, population, n_flu, market_penetration, n_patients_treated,
                   revenue, r_costs, costs, net_income, dcfs, result, prev, calls>>

\* a variant of the revenue step that leaves out cost_per_unit
Revenue_Unpriced ==
    /\ pc = "line66"
    /\ revenue' = n_patients_treated
    /\ r_costs' = ScalarMul(args.cost_of_revenue, revenue')
    /\ bound' = bound \cup {"revenue", "r_costs"}
    /\ pc' = "line72"
    /\ UNCHANGED <<args, population, n_flu, market_penetration, n_patients_treated,
                   nr_costs, costs, net_income, dcfs, result, prev, calls>>

\* # Revenue, # Revenue-associated costs (lines 66-69)
Revenue ==
    /\ pc = "line66"
    /\ revenue' = ScalarMul(args.cost_per_unit, n_patients_treated)
    /\ r_costs' = ScalarMul(args.cost_of_revenue, revenue')
    /\ bound' = bound \cup {"revenue", "r_costs"}
    /\ pc' = "line72"
    /\ UNCHANGED <<args, population, n_flu, market_penetration, n_patients_treated,
                   nr_costs, costs, net_income, dcfs, result, prev, calls>>

\* a variant of the total-cost step that subtracts the revenue costs
TotalCosts_Subtracted ==
    /\ pc = "line72"
    /\ IF Broadcastable(nr_costs, r_costs)
       THEN /\ costs' = ArraySub(nr_costs, r_costs)
            /\ bound' = bound \cup {"costs"}
            /\ pc' = "line75"
       ELSE /\ Raise
            /\ UNCHANGED <<costs, bound>>
    /\ UNCHANGED <<args, population, n_flu, market_penetration, n_patients_treated,
                   nr_costs, revenue, r_costs, net_income, dcfs, result, prev, calls>>

\* # Total costs (line 72)
TotalCosts ==
    /\ pc = "line72"
    /\ IF Broadcastable(nr_costs, r_costs)
       THEN /\ costs' = ArrayAdd(nr_costs, r_costs)
            /\ bound' = bound \cup {"costs"}
            /\ pc' = "line75"
       ELSE /\ Raise
            /\ UNCHANGED <<costs, bound>>
    /\ UNCHANGED <<args, population, n_flu, market_penetration, n_patients_treated,
                   nr_costs, revenue, r_costs, net_income, dcfs, result, prev, calls>>

\* # Net Income (line 75)
NetIncome ==
    /\ pc = "line75"
    /\ IF Broadcastable(revenue, costs)
       THEN /\ net_income' = ArraySub(revenue, costs)
            /\ bound' = bound \cup {"net_income"}
            /\ pc' = "line78"
       ELSE /\ Raise
            /\ UNCHANGED <<net_income, bound>>
    /\ UNCHANGED <<args, population, n_flu, market_penetration, n_patients_treated,
                   nr_costs, revenue, r_costs, costs, dcfs, result, prev, calls>>

\* # DCFs (line 78)
DCFs ==
    /\ pc = "line78"
    /\ dcfs' = DiscountedCashFlows(args, net_income)
    /\ bound' = bound \cup {"dcfs"}
    /\ pc' = "line80"
    /\ UNCHANGED <<args, population, n_flu, market_penetration, n_patients_treated,
                   nr_costs, revenue, r_costs, costs, net_income, result, prev, calls>>

\* return dcfs.sum() (line 80)
Return ==
    /\ pc = "line80"
    /\ result' = ArraySum(dcfs)
    /\ pc' = "returned"
    /\ UNCHANGED <<args, bound, locals, prev, calls>>

----------------------------------------------------------------------------
(* The caller: a first call, then calls that change one parameter of the   *)
(* call before.                                                            *)

NumberChoices ==
    [us_population                |-> {Zero, Dec(3355, 1)},
     us_population_growth_rate    |-> {Zero, Dec(5, 1)},
     get_flu_rate                 |-> {Zero, Dec(14, 2)},
     max_penetration              |-> {Zero, Dec(5, 1)},
     penetration_upon_patent_loss |-> {Zero, Dec(5, 2)},
     inflection_year              |-> {One, Dec(15, 1)},
     hill_coefficient             |-> {Zero, One},
     rd_cost_scaler               |-> {One, Int2Num(2)},
     clindev_sga                  |-> {Zero, Dec(5, 1)},
     cost_of_revenue              |-> {Dec(49, 2), Dec(15, 1)},
     cost_per_unit                |-> {Int2Num(45), Int2Num(50)},
     discount_rate                |-> {Int2Num(-2), Int2Num(-1), Zero, Dec(35, 2),
                                       One, Int2Num(3), Int2Num(7)}]

CountChoices ==
    [n_years                |-> {0, 1, 5, 30},
     patent_exclusive_years |-> {-1, 0, 1, 19, 25},
     lead_time_years        |-> {-1, 0, 6, 24, 25}]

Choices(p) == IF p \in DOMAIN CountChoices THEN CountChoices[p] ELSE NumberChoices[p]

\* the parameter sets the model can compute: np.exp is taken on ExpArgs only
ValidInput(a) ==
    \A i \in 0..(a.patent_exclusive_years - 1) :
        /\ IsInteger(ExpArg(a, i))
        /\ Len(Scaled(ExpArg(a, i), 0, 0, 0)) <= 1
        /\ ToInt(ExpArg(a, i)) \in ExpArgs

\* the first calls: three settings of the numbers, each with the counts varied.
\*   the defaults, but no population growth and a flat curve (np.exp(0));
\*   the same with an S-curve (hill_coefficient 1, inflection_year 1);
\*   the same with no market at all
Settings ==
    {[Defaults EXCEPT !.us_population_growth_rate = Zero],
     [Defaults EXCEPT !.us_population_growth_rate = Zero,
                      !.hill_coefficient = One, !.inflection_year = One],
     [Defaults EXCEPT !.us_population_growth_rate = Zero,
                      !.max_penetration = Zero,
                      !.penetration_upon_patent_loss = Zero]}

FirstCalls ==
    {a \in {[b EXCEPT !.n_years = n, !.patent_exclusive_years = p,
                      !.lead_time_years = l]
               : b \in Settings, n \in {1, 5, 30}, p \in {0, 1, 19, 25},
                 l \in {0, 6, 24}}
       : ValidInput(a)}

NoLocals ==
    /\ population = <<>> /\ n_flu = <<>> /\ market_penetration = <<>>
    /\ n_patients_treated = <<>> /\ nr_costs = <<>> /\ revenue = <<>>
    /\ r_costs = <<>> /\ costs = <<>> /\ net_income = <<>> /\ dcfs = <<>>

Init ==
    /\ args \in FirstCalls
    /\ pc = "line47"
    /\ bound = {}
    /\ NoLocals
    /\ result = Zero
    /\ prev = [args |-> args, pc |-> "none", result |-> Zero]
    /\ calls = 1

\* the next call: one parameter of the last call changed
Call ==
    /\ pc \in {"returned", "raised"}
    /\ calls < MaxCalls
    /\ \E p \in ParamNames : \E v \in Choices(p) :
          /\ v # args[p]
          /\ ValidInput([args EXCEPT ![p] = v])
          /\ args' = [args EXCEPT ![p] = v]
    /\ prev' = [args |-> args, pc |-> pc, result |-> result]
    /\ pc' = "line47"
    /\ bound' = {}
    /\ population' = <<>> /\ n_flu' = <<>> /\ market_penetration' = <<>>
    /\ n_patients_treated' = <<>> /\ nr_costs' = <<>> /\ revenue' = <<>>
    /\ r_costs' = <<>> /\ costs' = <<>> /\ net_income' = <<>> /\ dcfs' = <<>>
    /\ result' = Zero
    /\ calls' = calls + 1

Next ==
    \/ MarketAddressable
    \/ MarketPenetrationRate
    \/ PatientsPerYear
    \/ NonRevenueCosts
    \/ Revenue
    \/ TotalCosts
    \/ NetIncome
    \/ DCFs
    \/ Return
    \/ Call

Spec == Init /\ [][Next]_vars

----------------------------------------------------------------------------
(* Properties.                                                             *)

Ended    == pc \in {"returned", "raised"}
Returned == pc = "returned"

\* the call before returned, and this call changed parameter p alone
Varied(p) ==
    /\ prev.pc = "returned"
    /\ Returned
    /\ prev.args[p] # args[p]
    /\ \A q \in ParamNames \ {p} : prev.args[q] = args[q]

\* the length of the market-penetration sequence, for lead_time_years >= 0
PenetrationLen(a) ==
    a.lead_time_years + ArangeLen(a.patent_exclusive_years) + PostPatentYears

\* the length of the non-revenue cost sequence
CostLen == Len(rd_costs_baseline) + ZeroPadYears

\* the years get_npv discounts: its result is a sum over 0 .. DiscountedYears - 1
DiscountedYears(a) == Min2(ArangeLen(a.n_years), CostLen)

Local(name) ==
    CASE name = "population"         -> population
      [] name = "n_flu"              -> n_flu
      [] name = "market_penetration" -> market_penetration
      [] name = "n_patients_treated" -> n_patients_treated
      [] name = "nr_costs"           -> nr_costs
      [] name = "revenue"            -> revenue
      [] name = "r_costs"            -> r_costs
      [] name = "costs"              -> costs
      [] name = "net_income"         -> net_income
      [] name = "dcfs"               -> dcfs

\* c[i] of the spec: rd_cost_scaler * baseline[i] + clindev_sga for i < 6, else 0
\* (i counts from 1 here)
CostOfYear(a, i) ==
    IF i <= Len(rd_costs_baseline)
    THEN Add(Mul(a.rd_cost_scaler, rd_costs_baseline[i]), a.clindev_sga)
    ELSE Zero

\* the sum over the years i < n of f(i) / (1 + discount_rate)^i
PresentValue(a, n, f(_)) ==
    ArraySum(Seq0([k \in 1..n |-> Div(f(k), Pow(Add(One, a.discount_rate), k - 1))]))

MinusOne == Int2Num(-1)

\* C1: with non-negative counts, n_years = lead_time_years +
\* patent_exclusive_years + 5 > 0, discount_rate > -1 and non-negative rates,
\* the call returns, and returns a finite number -- for every such n_years.
C1_ValidInput(a) ==
    /\ a.lead_time_years >= 0
    /\ a.patent_exclusive_years >= 0
    /\ a.n_years = a.lead_time_years + a.patent_exclusive_years + PostPatentYears
    /\ Less(MinusOne, a.discount_rate)

C1_ReturnsFinite == (Ended /\ C1_ValidInput(args)) => (Returned /\ IsFinite(result))

\* C2 as stated: when the call returns and max_penetration = 0, the result is
\* minus the present value of the non-revenue costs.
C2_NonRevenuePV ==
    Neg(PresentValue(args, DiscountedYears(args), LAMBDA i : CostOfYear(args, i)))

C2_Original == (Returned /\ args.max_penetration = Zero) => result = C2_NonRevenuePV

\* C2 amended: when the call returns with max_penetration = 0 and
\* penetration_upon_patent_loss = 0 (discount_rate # -1), no year has revenue
\* and the result is minus the present value, over the years below n_years,
\* of the non-revenue costs.
C2_ZeroPenetration ==
    (/\ Returned
     /\ args.max_penetration = Zero
     /\ args.penetration_upon_patent_loss = Zero
     /\ args.discount_rate # MinusOne)
    => /\ \A i \in 1..Len(revenue) : revenue[i] = Zero
       /\ result = C2_NonRevenuePV

C2_Witness ==
    /\ Returned
    /\ args.max_penetration = Zero
    /\ args.penetration_upon_patent_loss = Zero
    /\ args.discount_rate # MinusOne
    /\ args.n_years = 30
    /\ args.patent_exclusive_years > 0
    /\ result # Zero

\* C3 as stated: of two returning calls that differ in rd_cost_scaler alone, the
\* second with twice the first's s, NPV(s) - NPV(2s) is the present value of
\* the first call's non-revenue costs, s * baseline[i] + clindev_sga.
C3_Doubled ==
    /\ Varied("rd_cost_scaler")
    /\ args.rd_cost_scaler = Mul(Int2Num(2), prev.args.rd_cost_scaler)

C3_Original ==
    C3_Doubled =>
        Sub(prev.result, result)
          = PresentValue(prev.args, Len(rd_costs_baseline),
                         LAMBDA i : CostOfYear(prev.args, i))

\* C3 amended: NPV(s) - NPV(2s) is the present value, over the years below
\* min(n_years, 6), of the R&D part s * baseline[i] alone (discount_rate # -1):
\* clindev_sga is not scaled.
C3_ScalerLinearity ==
    (C3_Doubled /\ args.discount_rate # MinusOne) =>
        Sub(prev.result, result)
          = PresentValue(prev.args,
                         Min2(DiscountedYears(prev.args), Len(rd_costs_baseline)),
                         LAMBDA i : Mul(prev.args.rd_cost_scaler, rd_costs_baseline[i]))

C3_Witness ==
    /\ C3_Doubled
    /\ args.discount_rate # MinusOne
    /\ args.clindev_sga # Zero
    /\ args.n_years = 30

\* the first patent-exclusive value of the spec:
\* max_penetration / (1 + exp(hill_coefficient * inflection_year))
C4_FirstPatentValue(a) ==
    Div(a.max_penetration, Add(One, Exp(Mul(a.hill_coefficient, a.inflection_year))))

C4_Built ==
    /\ "market_penetration" \in bound
    /\ args.lead_time_years >= 0
    /\ args.patent_exclusive_years >= 0

\* C4 as stated: for all non-negative lead_time_years and patent_exclusive_years
\* (0 included), market_penetration has a year lead_time_years - 1 and is 0 there, the
\* first patent value at index lead_time_years, and
\* penetration_upon_patent_loss at index lead_time_years + patent_exclusive_years.
C4_Original ==
    C4_Built =>
        /\ args.lead_time_years >= 1
        /\ market_penetration[args.lead_time_years] = Zero
        /\ market_penetration[args.lead_time_years + 1] = C4_FirstPatentValue(args)
        /\ market_penetration[args.lead_time_years + args.patent_exclusive_years + 1]
             = args.penetration_upon_patent_loss

\* C4 amended: the sequence is lead_time_years zeros, patent_exclusive_years
\* logistic values and 5 entries penetration_upon_patent_loss; so index
\* lead_time_years - 1 holds 0 when lead_time_years >= 1, index lead_time_years
\* holds the first patent value when patent_exclusive_years >= 1, and index
\* lead_time_years + patent_exclusive_years holds penetration_upon_patent_loss.
C4_RegimeBoundaries ==
    C4_Built =>
        /\ Len(market_penetration) = PenetrationLen(args)
        /\ \A i \in 1..args.lead_time_years : market_penetration[i] = Zero
        /\ args.patent_exclusive_years >= 1 =>
              market_penetration[args.lead_time_years + 1] = C4_FirstPatentValue(args)
        /\ \A i \in 1..PostPatentYears :
              market_penetration[args.lead_time_years + args.patent_exclusive_years + i]
                = args.penetration_upon_patent_loss

C4_Witness ==
    /\ C4_Built
    /\ args.lead_time_years >= 1
    /\ args.patent_exclusive_years >= 1
    /\ args.hill_coefficient # Zero
    /\ args.max_penetration # Zero

\* the undiscounted sum of net_income over the years 1 .. n_years - 1
C5_LaterIncome == SumRange(net_income, 2, DiscountedYears(args))

C5_TwoRates ==
    /\ Varied("discount_rate")
    /\ Less(MinusOne, args.discount_rate)
    /\ Less(MinusOne, prev.args.discount_rate)

\* the call with the larger discount_rate returned the smaller NPV
C5_Decreasing ==
    IF Less(prev.args.discount_rate, args.discount_rate)
    THEN Less(result, prev.result)
    ELSE Less(prev.result, result)

\* C5 as stated: of two returning calls that differ in discount_rate alone
\* (both > -1), with a positive undiscounted sum of net_income over the years
\* 1 .. n_years - 1, the call with the larger rate returns the smaller NPV.
C5_Original == (C5_TwoRates /\ Less(Zero, C5_LaterIncome)) => C5_Decreasing

\* C5 amended: the same conclusion when net_income is non-negative in every
\* year 1 .. n_years - 1 and positive in one of them.
C5_NoLaterLoss ==
    /\ \A i \in 2..DiscountedYears(args) : LessEq(Zero, net_income[i])
    /\ \E i \in 2..DiscountedYears(args) : Less(Zero, net_income[i])

C5_DiscountMonotone == (C5_TwoRates /\ C5_NoLaterLoss) => C5_Decreasing

C5_Witness == C5_TwoRates /\ C5_NoLaterLoss /\ args.n_years = 30

C6_TwoPrices ==
    /\ Varied("cost_per_unit")
    /\ Less(args.cost_of_revenue, One)

\* C6 as stated: of two returning calls that differ in cost_per_unit alone, with
\* cost_of_revenue < 1, the call with the larger cost_per_unit returns a
\* strictly larger NPV.
C6_Original ==
    C6_TwoPrices =>
        IF Less(prev.args.cost_per_unit, args.cost_per_unit)
        THEN Less(prev.result, result)
        ELSE Less(result, prev.result)

\* C6 amended: with discount_rate > -1 and no negative n_patients_treated in the
\* years below n_years, the call with the larger cost_per_unit returns an NPV
\* at least as large, and a strictly larger one exactly when some year below
\* n_years has n_patients_treated > 0.
C6_SomePatients ==
    \E i \in 1..DiscountedYears(args) : Less(Zero, n_patients_treated[i])

C6_PriceMonotone ==
    (/\ C6_TwoPrices
     /\ Less(MinusOne, args.discount_rate)
     /\ \A i \in 1..DiscountedYears(args) : LessEq(Zero, n_patients_treated[i]))
    => IF Less(prev.args.cost_per_unit, args.cost_per_unit)
       THEN /\ LessEq(prev.result, result)
            /\ Less(prev.result, result) <=> C6_SomePatients
       ELSE /\ LessEq(result, prev.result)
            /\ Less(result, prev.result) <=> C6_SomePatients

C6_Witness ==
    /\ C6_TwoPrices
    /\ Less(MinusOne, args.discount_rate)
    /\ C6_SomePatients
    /\ args.n_years = 30

\* C7: every per-year sequence a call has produced has exactly n_years elements.
C7_LengthInvariant == \A name \in bound : Len(Local(name)) = args.n_years

\* C8 as stated: no call ends in an exception.
C8_Original == pc # "raised"

\* C8 amended: a call with integer counts returns (a finite, infinite or NaN
\* float) exactly when lead_time_years >= 0, the market-penetration length
\* lead_time_years + max(patent_exclusive_years, 0) + 5 is 30 and n_years is 30
\* or 1; every other call raises ValueError.
C8_Returns(a) ==
    /\ a.lead_time_years >= 0
    /\ PenetrationLen(a) = CostLen
    /\ a.n_years \in {1, CostLen}

C8_ReturnsOrRaises == Ended => (Returned <=> C8_Returns(args))

C8_Witness == pc = "raised" /\ "nr_costs" \in bound /\ args.n_years > 1

\* C9: with n_years different from the market-penetration length or from the
\* non-revenue-cost length (30), the call does not return a value.
C9_NoSilentMismatch ==
    Returned => /\ args.n_years = PenetrationLen(args)
                /\ args.n_years = CostLen

\* C10: with n_years = 30 and lead_time_years + patent_exclusive_years = 25 the
\* value returned is the sum over i = 0..29 of
\*   ((1 - cost_of_revenue) * cost_per_unit * p[i] * get_flu_rate
\*      * us_population * (1 + us_population_growth_rate)^i - c[i])
\*   / (1 + discount_rate)^i.
C10_Income(a, p, i) ==
    Sub(Mul(Mul(Mul(Mul(Mul(Sub(One, a.cost_of_revenue), a.cost_per_unit), p[i]),
                    a.get_flu_rate), a.us_population),
            Pow(Add(One, a.us_population_growth_rate), i - 1)),
        CostOfYear(a, i))

C10_Applies ==
    /\ Returned
    /\ args.n_years = 30
    /\ args.lead_time_years + args.patent_exclusive_years = 25

C10_EndToEnd ==
    C10_Applies =>
        result = PresentValue(args, 30,
                              LAMBDA i : C10_Income(args, market_penetration, i))

C10_Witness ==
    /\ C10_Applies
    /\ args.max_penetration # Zero
    /\ args.us_population_growth_rate # Zero
    /\ IsFinite(result)
    /\ result # Zero

====
